---------------------------- MODULE Spec2Model ----------------------------
(*************************************************************************)
(* Model of the TWI weather-station driver, bin/user/twi.py.            *)
(*                                                                       *)
(* A session is one of                                                   *)
(*   "driver" : the host engine calls loader(), iterates genLoopPackets  *)
(*              and finally calls closePort;                             *)
(*   "main"   : the __main__ block, `with TWIStation(port) as s: ...`;   *)
(*   "api"    : any caller of a TWIStation object, calling open(),       *)
(*              close() and the get_* commands in any order.             *)
(*                                                                       *)
(* Byte strings are sequences of one-character strings.  The code is     *)
(* read with Python 2 byte-string semantics (iterating a buffer yields   *)
(* one-character strings), the semantics under which line 223 of twi.py  *)
(* evaluates without error and the str keys of COMPASS_POINTS match the  *)
(* tokens of a line read from the port.                                  *)
(*                                                                       *)
(* Spec is the specification of the sessions.  ParseSpec applies the     *)
(* static method parse_current to lines built from bounded token lists.  *)
(*************************************************************************)
EXTENDS Integers, Sequences, FiniteSets, TLC

\* ------------------------------------------------------------------ bounds
MaxTries == 3        \* largest configured max_tries explored in driver/api sessions
MaxHandles == 3      \* number of successful open() calls explored in one session

\* ------------------------------------------------------- program constants
DefaultMaxTries == 5     \* TWIStation.__init__ default, used by __main__
RetryWait == 10          \* retry_wait default
PollInterval == 15       \* poll_interval default
NoHandle == 0            \* serial_port is None

\* ------------------------------------------------------ bytes on the wire
Whitespace == {" ", "\t", "\n", "\r", "\f"}

\* readline() timed out: nothing was read
EmptyBuf == << >>

\* a bare line terminator
BlankBuf == << "\r", "\n" >>

\* free-form vendor text, the reply to V, S and I
TextBuf == << "V", "1", ".", "2", "\r", "\n" >>

\* the sample reply to r of the comment in parse_current
GoodBuf ==
  <<
    "5",":","1","5"," ","0","7","/","2","4","/","9","0"," ","S","S","E"," ",
    "0","4","M","P","H"," ","0","5","2","F"," ","0","6","9","F"," ","0","7",
    "8","F"," ","0","9","9","%"," ","3","0",".","0","4","R"," ","0","0",".",
    "1","9","\"","D"," ","0","1",".","3","8","\"","M"," ","1","1",".","7",
    "8","\"","T","\r","\n" >>

\* the same reply cut after its tenth token
ShortBuf ==
  <<
    "5",":","1","5"," ","0","7","/","2","4","/","9","0"," ","S","S","E"," ",
    "0","4","M","P","H"," ","0","5","2","F"," ","0","6","9","F"," ","0","7",
    "8","F"," ","0","9","9","%"," ","3","0",".","0","4","R"," ","0","0",".",
    "1","9","\"","D","\r","\n" >>

\* a later reply, with more rain in the total
WetBuf ==
  <<
    "1","3",":","2","9"," ","0","6","/","0","2","/","1","6"," ","W"," "," ",
    " ","0","0","M","P","H"," ","4","6","0","F"," ","0","8","1","F"," ","0",
    "8","6","F"," ","0","5","4","%"," ","2","9",".","3","1","F"," ","0","0",
    ".","0","0","\"","D"," ","0","0",".","0","0","\"","M"," ","1","7",".",
    "1","5","\"","T","\r","\n" >>

\* a reply whose rain total is no number
DashBuf ==
  <<
    "1","3",":","2","8"," ","0","6","/","0","2","/","1","6"," ","S","W"," ",
    " ","0","0","M","P","H"," ","4","6","0","F"," ","0","8","1","F"," ","0",
    "8","6","F"," ","0","5","4","%"," ","2","9",".","3","1","F"," ","0","0",
    ".","0","0","\"","D"," ","0","0",".","0","0","\"","M"," ","-","-",".",
    "-","-","\"","T","\r","\n" >>

\* what readline() may hand back
Buffers == {EmptyBuf, BlankBuf, TextBuf, GoodBuf, ShortBuf, WetBuf, DashBuf}

\* the command bytes the driver issues
Commands == {"V", "S", "I", "r"}

\* ------------------------------------------------------- string functions
RECURSIVE lstrip(_)
lstrip(s) ==
  IF s = << >> THEN << >>
  ELSE IF Head(s) \in Whitespace THEN lstrip(Tail(s)) ELSE s

RECURSIVE rstrip(_)
rstrip(s) ==
  IF s = << >> THEN << >>
  ELSE IF s[Len(s)] \in Whitespace THEN rstrip(SubSeq(s, 1, Len(s) - 1)) ELSE s

\* buf.strip()
strip(s) == rstrip(lstrip(s))

\* the first whitespace-delimited token of a string that starts with none
RECURSIVE FirstToken(_)
FirstToken(s) ==
  IF s = << >> \/ Head(s) \in Whitespace THEN << >>
  ELSE << Head(s) >> \o FirstToken(Tail(s))

\* s.split(): the tokens between runs of whitespace
RECURSIVE split(_)
split(s) ==
  LET t == lstrip(s) IN
  IF t = << >> THEN << >>
  ELSE LET tok == FirstToken(t) IN
       << tok >> \o split(SubSeq(t, Len(tok) + 1, Len(t)))


\* ------------------------------------------------------------- numbers
\* A Python float that parse_current can produce is a decimal numeral: it is
\* kept as n / 10^d with no trailing zero in the fraction, so that equal
\* numbers are equal records.  None is Absent.
Absent == [ok |-> FALSE, n |-> 0, d |-> 0]

RECURSIVE Float(_, _)
Float(n, d) ==
  IF d > 0 /\ n % 10 = 0 THEN Float(n \div 10, d - 1)
  ELSE [ok |-> TRUE, n |-> n, d |-> d]

Digits == {"0", "1", "2", "3", "4", "5", "6", "7", "8", "9"}

DigitVal(c) ==
  CASE c = "0" -> 0 [] c = "1" -> 1 [] c = "2" -> 2 [] c = "3" -> 3
    [] c = "4" -> 4 [] c = "5" -> 5 [] c = "6" -> 6 [] c = "7" -> 7
    [] c = "8" -> 8 [] c = "9" -> 9

AllDigits(s) == \A i \in 1..Len(s) : s[i] \in Digits

\* the number written by a string of digits
RECURSIVE DigitsVal(_)
DigitsVal(s) ==
  IF s = << >> THEN 0
  ELSE 10 * DigitsVal(SubSeq(s, 1, Len(s) - 1)) + DigitVal(s[Len(s)])

\* position of the first "." of s, or Len(s) + 1
RECURSIVE DotAt(_)
DotAt(s) ==
  IF s = << >> \/ Head(s) = "." THEN 1 ELSE 1 + DotAt(Tail(s))

\* float(s) of an unsigned numeral: digits, at most one ".", at least one
\* digit; anything else raises ValueError (Absent)
float_unsigned(s) ==
  LET p == DotAt(s)
      ip == SubSeq(s, 1, p - 1)
      fp == SubSeq(s, p + 1, Len(s))
  IN IF AllDigits(ip) /\ AllDigits(fp) /\ Len(ip) + Len(fp) > 0
     THEN Float(DigitsVal(ip \o fp), Len(fp))
     ELSE Absent

\* a try_float that stops at the first character that is no digit, as C's
\* atof does
try_float_lenient(s) ==
  LET RECURSIVE lead(_)
      lead(t) == IF t = << >> \/ Head(t) \notin Digits THEN << >>
                 ELSE << Head(t) >> \o lead(Tail(t))
  IN IF lead(s) = << >> THEN Absent ELSE Float(DigitsVal(lead(s)), 0)

\* try_float(s): float(s), or None when float raises ValueError.  float
\* takes an optional sign before the numeral.  (It also takes exponents and
\* the spellings of infinity and nan; the lines explored here have none.)
try_float(s) ==
  IF s # << >> /\ Head(s) = "-"
  THEN LET v == float_unsigned(Tail(s)) IN
       IF v.ok THEN Float(0 - v.n, v.d) ELSE Absent
  ELSE IF s # << >> /\ Head(s) = "+" THEN float_unsigned(Tail(s))
  ELSE float_unsigned(s)

\* s[:n]
py_prefix(s, n) == SubSeq(s, 1, IF n < Len(s) THEN n ELSE Len(s))

\* s[:-n]
py_drop(s, n) == IF n < Len(s) THEN SubSeq(s, 1, Len(s) - n) ELSE << >>

\* COMPASS_POINTS, bearings in degrees
COMPASS_POINTS ==
  { << <<"N">>, Float(0, 0) >>,          << <<"N","N","E">>, Float(225, 1) >>,
    << <<"N","E">>, Float(45, 0) >>,     << <<"E","N","E">>, Float(675, 1) >>,
    << <<"E">>, Float(90, 0) >>,         << <<"E","S","E">>, Float(1125, 1) >>,
    << <<"S","E">>, Float(135, 0) >>,    << <<"S","S","E">>, Float(1575, 1) >>,
    << <<"S">>, Float(180, 0) >>,        << <<"S","S","W">>, Float(2025, 1) >>,
    << <<"S","W">>, Float(225, 0) >>,    << <<"W","S","W">>, Float(2475, 1) >>,
    << <<"W">>, Float(270, 0) >>,        << <<"W","N","W">>, Float(2925, 1) >>,
    << <<"N","W">>, Float(315, 0) >>,    << <<"N","N","W">>, Float(3375, 1) >> }

\* a lookup that ignores the case of the letters
compass_get_anycase(tok) ==
  LET Upper(c) == CASE c = "n" -> "N" [] c = "e" -> "E" [] c = "s" -> "S"
                    [] c = "w" -> "W" [] OTHER -> c
      up == [j \in 1..Len(tok) |-> Upper(tok[j])]
  IN IF \E e \in COMPASS_POINTS : e[1] = up
     THEN (CHOOSE e \in COMPASS_POINTS : e[1] = up)[2]
     ELSE Absent

\* COMPASS_POINTS.get(tok)
compass_get(tok) ==
  IF \E e \in COMPASS_POINTS : e[1] = tok
  THEN (CHOOSE e \in COMPASS_POINTS : e[1] = tok)[2]
  ELSE Absent

\* a wind speed read from what is in front of the 3-character suffix
wind_speed_suffix(tok) == try_float(py_drop(tok, 3))

\* a pressure read with two unit characters taken off, as for the rain
pressure_two(tok) == try_float(py_drop(tok, 2))

\* the fields of parse_current, each from its token
wind_speed(tok) == try_float(py_prefix(tok, 2))
temperature(tok) == try_float(py_prefix(tok, 3))
humidity(tok) == try_float(py_prefix(tok, 3))
pressure(tok) == try_float(py_drop(tok, 1))
rain(tok) == try_float(py_drop(tok, 2))

\* parts[i] of a line too short raises IndexError: nothing is returned
ParseError ==
  [error |-> "IndexError", time |-> << >>, date |-> << >>, wind_dir |-> Absent,
   wind_speed |-> Absent, temperature_aux |-> Absent, temperature_in |-> Absent,
   temperature_out |-> Absent, humidity |-> Absent, pressure |-> Absent,
   rain_day |-> Absent, rain_month |-> Absent, rain_total |-> Absent]

\* a parser that insists on exactly 12 tokens
too_short_or_long(parts) == Len(parts) # 12

\* parts[0] .. parts[11] are indexed: a 12th token must exist
too_short(parts) == Len(parts) < 12

\* parse_current(s)
parse_current(s) ==
  LET parts == split(s) IN
  IF too_short(parts)
  THEN ParseError
  ELSE [error |-> "none",
        time |-> parts[1],
        date |-> parts[2],
        wind_dir |-> compass_get(parts[3]),
        wind_speed |-> wind_speed(parts[4]),
        temperature_aux |-> temperature(parts[5]),
        temperature_in |-> temperature(parts[6]),
        temperature_out |-> temperature(parts[7]),
        humidity |-> humidity(parts[8]),
        pressure |-> pressure(parts[9]),
        rain_day |-> rain(parts[10]),
        rain_month |-> rain(parts[11]),
        rain_total |-> rain(parts[12])]

\* ------------------------------------------------------------------ state
VARIABLES
  mode,         \* "driver", "main" or "api": who drives the station
  max_tries,    \* TWIStation.max_tries
  serial_port,  \* TWIStation.serial_port: NoHandle or the index of a handle
  handles,      \* every serial.Serial object created so far: open?, close() calls
  pc,           \* where the session's control is
  cmd,          \* the command byte of the current get_data_with_retry call
  ntries,       \* number of loop iterations of that call completed by failure
  trace,        \* what that call did so far: writes, reads, log entries, sleeps
  outcome,      \* how that call ended: a returned line or a raised error
  gen,          \* the genLoopPackets generator: unstarted, running, suspended, dead
  parsed,       \* parse_current in the current poll cycle: none, ok, IndexError
  cycleExec,    \* get_current() calls in the current poll cycle
  cycleParse,   \* parse_current() calls in the current poll cycle
  toks,         \* the tokens of the line a caller handed to parse_current
  data,         \* the latest parse_current call: its line s and its result r
  last_rain,    \* TWIDriver.last_rain
  packet,       \* the packet of the current poll cycle, if one was built
  sent,         \* command bytes written in a driver or __main__ session,
                \* in order, a byte repeated in a row listed once
  idle          \* what genLoopPackets did between the previous get_current()
                \* call and the current one

vars == << mode, max_tries, serial_port, handles, pc, cmd, ntries, trace,
           outcome, gen, parsed, cycleExec, cycleParse,
           toks, data, last_rain, packet, sent, idle >>

hist == << toks, data, last_rain, packet, sent, idle >>

station == << serial_port, handles >>
call == << cmd, ntries, trace, outcome >>
cycle == << gen, parsed, cycleExec, cycleParse >>

Event(e, c, k, n) == [ev |-> e, cmd |-> c, k |-> k, n |-> n]

Pending == [kind |-> "pending", value |-> << >>, raw |-> << >>]
Raised(e) == [kind |-> e, value |-> << >>, raw |-> << >>]

\* number of events of kind e in a trace
RECURSIVE Count(_, _)
Count(tr, e) ==
  IF tr = << >> THEN 0
  ELSE (IF Head(tr).ev = e THEN 1 ELSE 0) + Count(Tail(tr), e)

Last(tr) == tr[Len(tr)]

RECURSIVE Pow10(_)
Pow10(k) == IF k = 0 THEN 1 ELSE 10 * Pow10(k - 1)

\* a >= b and a - b of two numbers
FloatGeq(a, b) == a.n * Pow10(b.d) >= b.n * Pow10(a.d)
FloatSub(a, b) ==
  LET d == IF a.d > b.d THEN a.d ELSE b.d IN
  Float(a.n * Pow10(d - a.d) - b.n * Pow10(d - b.d), d)

\* weewx.wxformulas.calculate_rain(newtotal, oldtotal): the difference of the
\* totals, None when either is None or the total went down
calculate_rain(newtotal, oldtotal) ==
  IF newtotal.ok /\ oldtotal.ok /\ FloatGeq(newtotal, oldtotal)
  THEN FloatSub(newtotal, oldtotal)
  ELSE Absent

\* no parse_current call yet
NoData == [called |-> FALSE, s |-> << >>, r |-> ParseError]

\* no packet in this poll cycle
NoPacket ==
  [built |-> FALSE, windDir |-> Absent, windSpeed |-> Absent, inTemp |-> Absent,
   outTemp |-> Absent, extraTemp1 |-> Absent, outHumidity |-> Absent,
   pressure |-> Absent, rain |-> Absent]

\* _data_to_packet(data): the packet (its dateTime left out)
data_to_packet(d, lr) ==
  [built |-> TRUE, windDir |-> d.wind_dir, windSpeed |-> d.wind_speed,
   inTemp |-> d.temperature_in, outTemp |-> d.temperature_out,
   extraTemp1 |-> d.temperature_aux, outHumidity |-> d.humidity,
   pressure |-> d.pressure, rain |-> calculate_rain(d.rain_total, lr)]

\* a driver that keeps the last total it could read
next_last_rain_known(d, lr) == IF d.rain_total.ok THEN d.rain_total ELSE lr

\* _data_to_packet(data): self.last_rain = data['rain_total']
next_last_rain(d, lr) == d.rain_total

\* the record of bytes written, after one more write of c
sent_after(snt, c) ==
  IF snt # << >> /\ Last(snt) = c THEN snt ELSE Append(snt, c)

\* ------------------------------------------------------------ TWIStation
\* serial.Serial(port, baudrate, timeout): a new open handle
NewHandle == [open |-> TRUE, closes |-> 0]

\* open(): the new handle replaces whatever serial_port held
open_handles(hs) == Append(hs, NewHandle)
open_port(hs) == Len(hs) + 1

\* close(): serial_port.close() when a handle is held ...
close_handles(sp, hs) ==
  IF sp # NoHandle
  THEN [hs EXCEPT ![sp] = [open |-> FALSE, closes |-> @.closes + 1]]
  ELSE hs

\* a close() that forgets to drop the handle
close_port_keeps(sp) == sp

\* ... and serial_port = None
close_port(sp) == IF sp # NoHandle THEN NoHandle ELSE sp

StationOpen ==
  /\ handles' = open_handles(handles)
  /\ serial_port' = open_port(handles)

StationClose ==
  /\ handles' = close_handles(serial_port, handles)
  /\ serial_port' = close_port(serial_port)

\* what the channel does in one exchange: the write raises, the read raises,
\* or readline() returns a buffer (empty when the read timed out)
Exchanges ==
  { [io |-> "write_fails", buf |-> << >>], [io |-> "read_fails", buf |-> << >>] }
    \cup { [io |-> "ok", buf |-> b] : b \in Buffers }

\* get_data(cmd): one write, one readline, strip
get_data(x) ==
  IF x.io = "ok"
  THEN [kind |-> "return", value |-> strip(x.buf), raw |-> x.buf]
  ELSE Raised("SerialException")

\* a transport that writes the command byte twice before it reads
get_data_events_twice(c, x) ==
  IF x.io = "write_fails"
  THEN << Event("write", c, 0, 0) >>
  ELSE << Event("write", c, 0, 0), Event("write", c, 0, 0),
          Event("readline", c, 0, 0) >>

\* a transport that writes the command again when nothing came back
get_data_events_rewrite(c, x) ==
  IF x.io = "write_fails"
  THEN << Event("write", c, 0, 0) >>
  ELSE IF x.buf = << >>
  THEN << Event("write", c, 0, 0), Event("readline", c, 0, 0),
          Event("write", c, 0, 0), Event("readline", c, 0, 0) >>
  ELSE << Event("write", c, 0, 0), Event("readline", c, 0, 0) >>

get_data_events(c, x) ==
  IF x.io = "write_fails"
  THEN << Event("write", c, 0, 0) >>
  ELSE << Event("write", c, 0, 0), Event("readline", c, 0, 0) >>

\* an except clause that catches every error
Retryable_any == {"SerialException", "WeeWxIOError", "AttributeError"}

\* the errors the except clause of get_data_with_retry catches
Retryable == {"SerialException", "WeeWxIOError"}

\* a log entry that numbers the attempts from 0
except_events_from_zero(c, k, n) ==
  << Event("loginf", c, k - 1, n), Event("sleep", c, RetryWait, 0) >>

\* a retry loop that backs off only between attempts
except_events_between(c, k, n) ==
  IF k < n
  THEN << Event("loginf", c, k, n), Event("sleep", c, RetryWait, 0) >>
  ELSE << Event("loginf", c, k, n) >>

\* the except clause: loginf("Failed attempt k of n ..."), time.sleep(retry_wait)
except_events(c, k, n) ==
  << Event("loginf", c, k, n), Event("sleep", c, RetryWait, 0) >>

\* a loop bound that is off by one
loop_continues_inclusive(nt, mt) == nt <= mt

\* for ntries in range(0, max_tries)
loop_continues(nt, mt) == nt < mt

\* the else clause of the loop: building msg reads self._max_tries, an
\* attribute TWIStation never sets, so AttributeError is raised before
\* logerr and before raise weewx.RetriesExceeded
else_clause(c, mt) == [events |-> << >>, outcome |-> Raised("AttributeError")]

\* entry of get_data_with_retry(c)
BeginCmd(c) ==
  /\ cmd' = c
  /\ ntries' = 0
  /\ trace' = << >>
  /\ outcome' = Pending
  /\ pc' = "cmd"

\* one call of get_data from the retry loop: on a station that holds no
\* handle, self.serial_port.write fails on None before anything is written
attempt_result(sp, x) ==
  IF sp = NoHandle THEN Raised("AttributeError") ELSE get_data(x)

attempt_events(sp, c, x) ==
  IF sp = NoHandle THEN << >> ELSE get_data_events(c, x)

\* one iteration of the retry loop
Attempt ==
  /\ pc = "cmd"
  /\ loop_continues(ntries, max_tries)
  /\ \E x \in Exchanges :
       LET r == attempt_result(serial_port, x)
           evs == attempt_events(serial_port, cmd, x)
       IN IF r.kind = "return"
          THEN /\ trace' = trace \o evs
               /\ outcome' = r
               /\ pc' = "returned"
               /\ UNCHANGED ntries
          ELSE IF r.kind \in Retryable
          THEN /\ trace' = trace \o evs \o except_events(cmd, ntries + 1, max_tries)
               /\ ntries' = ntries + 1
               /\ UNCHANGED << outcome, pc >>
          ELSE /\ trace' = trace \o evs
               /\ outcome' = r
               /\ pc' = "raised"
               /\ UNCHANGED ntries
  /\ UNCHANGED << mode, max_tries, station, cmd, cycle >>
  /\ sent' = (IF serial_port # NoHandle /\ mode # "api"
              THEN sent_after(sent, cmd) ELSE sent)
  /\ UNCHANGED << toks, data, last_rain, packet, idle >>

\* the loop ran out of iterations
Exhausted ==
  /\ pc = "cmd"
  /\ ~ loop_continues(ntries, max_tries)
  /\ LET e == else_clause(cmd, max_tries) IN
       /\ trace' = trace \o e.events
       /\ outcome' = e.outcome
  /\ pc' = "raised"
  /\ UNCHANGED << mode, max_tries, station, cmd, ntries, cycle >>
  /\ UNCHANGED hist

\* ------------------------------------------------- TWIDriver under a host
\* TWIDriver.__init__: build the station, open() it, then ask for the unit id.
\* serial.Serial() may raise when the device is unavailable.
DriverInit ==
  /\ mode = "driver"
  /\ pc = "start"
  /\ \/ /\ StationOpen
        /\ BeginCmd("I")
     \/ /\ pc' = "ctor_failed"
        /\ UNCHANGED << station, call >>
  /\ UNCHANGED << mode, max_tries, cycle >>
  /\ UNCHANGED hist

\* a constructor that asks in the order of __main__: unit id, firmware
\* serial, firmware version
CtorReturned_serial_first ==
  /\ mode = "driver"
  /\ pc = "returned"
  /\ cmd \in {"I", "V", "S"}
  /\ IF cmd = "I" THEN BeginCmd("S")
     ELSE IF cmd = "S" THEN BeginCmd("V")
     ELSE /\ pc' = "ready"
          /\ UNCHANGED call
  /\ UNCHANGED << mode, max_tries, station, cycle >>
  /\ UNCHANGED hist

\* __init__ goes on: unit id, firmware version, firmware serial
CtorReturned ==
  /\ mode = "driver"
  /\ pc = "returned"
  /\ cmd \in {"I", "V", "S"}
  /\ IF cmd = "I" THEN BeginCmd("V")
     ELSE IF cmd = "V" THEN BeginCmd("S")
     ELSE /\ pc' = "ready"
          /\ UNCHANGED call
  /\ UNCHANGED << mode, max_tries, station, cycle >>
  /\ UNCHANGED hist

\* an error of a get_* call leaves __init__ and loader(): no driver object
\* exists, and nothing on the way out touches the station
CtorRaised ==
  /\ mode = "driver"
  /\ pc = "raised"
  /\ cmd \in {"I", "V", "S"}
  /\ pc' = "ctor_failed"
  /\ UNCHANGED << mode, max_tries, station, call, cycle >>
  /\ UNCHANGED hist

\* the host starts iterating genLoopPackets: first get_current()
GenStart ==
  /\ mode = "driver"
  /\ pc = "ready"
  /\ gen = "unstarted"
  /\ gen' = "running"
  /\ parsed' = "none"
  /\ cycleExec' = 1
  /\ cycleParse' = 0
  /\ BeginCmd("r")
  /\ UNCHANGED << mode, max_tries, station >>
  /\ UNCHANGED hist

\* a loop without the test of raw, as in __main__
loop_parses_always(raw) == TRUE

\* a loop that never parses
loop_parses_never(raw) == FALSE

\* does genLoopPackets hand the line to parse_current?  (if raw:)
loop_parses(raw) == raw # << >>

\* get_current() returned: if raw: parse, build the packet, yield
LoopReturned ==
  /\ mode = "driver"
  /\ pc = "returned"
  /\ cmd = "r"
  /\ IF loop_parses(outcome.value)
     THEN LET r == parse_current(outcome.value) IN
          /\ cycleParse' = cycleParse + 1
          /\ data' = [called |-> TRUE, s |-> outcome.value, r |-> r]
          /\ IF r.error = "none"
             THEN /\ parsed' = "ok"
                  /\ packet' = data_to_packet(r, last_rain)
                  /\ last_rain' = next_last_rain(r, last_rain)
                  /\ gen' = "suspended"
                  /\ pc' = "yielded"
             ELSE /\ parsed' = "IndexError"
                  /\ gen' = "dead"
                  /\ pc' = "gen_dead"
                  /\ UNCHANGED << last_rain, packet >>
     ELSE /\ pc' = "poll_sleep"
          /\ UNCHANGED << gen, parsed, cycleParse, data, last_rain, packet >>
  /\ UNCHANGED << mode, max_tries, station, call, cycleExec, toks, sent, idle >>

\* a polling loop that catches every error and skips the cycle
loop_catches_all(e) == TRUE

\* does the polling loop survive an error raised by get_current()?
\* genLoopPackets has no try statement
loop_catches(e) == FALSE

\* get_current() raised
LoopRaised ==
  /\ mode = "driver"
  /\ pc = "raised"
  /\ cmd = "r"
  /\ IF loop_catches(outcome.kind)
     THEN /\ pc' = "poll_sleep"
          /\ UNCHANGED gen
     ELSE /\ gen' = "dead"
          /\ pc' = "gen_dead"
  /\ UNCHANGED << mode, max_tries, station, call, parsed, cycleExec, cycleParse >>
  /\ UNCHANGED hist

\* the host asks for the next packet: the generator resumes after yield
GenNext ==
  /\ mode = "driver"
  /\ pc = "yielded"
  /\ gen' = "running"
  /\ pc' = "poll_sleep"
  /\ UNCHANGED << mode, max_tries, station, call, parsed, cycleExec, cycleParse >>
  /\ UNCHANGED hist

\* a loop that sleeps only after it yielded a packet
poll_events_after_packet(y) ==
  IF y THEN << Event("sleep", "r", PollInterval, 0) >> ELSE << >>

\* what the loop does after the if statement, whether or not (y) a packet
\* was yielded: time.sleep(self._poll_interval)
poll_events(y) == << Event("sleep", "r", PollInterval, 0) >>

\* time.sleep(poll_interval), then the next iteration of while True
PollSleep ==
  /\ mode = "driver"
  /\ pc = "poll_sleep"
  /\ idle' = poll_events(packet.built)
  /\ parsed' = "none"
  /\ packet' = NoPacket
  /\ cycleExec' = 1
  /\ cycleParse' = 0
  /\ BeginCmd("r")
  /\ UNCHANGED << mode, max_tries, station, gen >>
  /\ UNCHANGED << toks, data, last_rain, sent >>

\* closePort(): the host shuts the driver down, while the generator is not
\* running (not started, suspended at yield, or dead)
closePort ==
  /\ mode = "driver"
  /\ pc \in {"ready", "yielded", "gen_dead"}
  /\ StationClose
  /\ pc' = "closed"
  /\ UNCHANGED << mode, max_tries, call, cycle >>
  /\ UNCHANGED hist

\* --------------------------------------------------------------- __main__
\* with TWIStation(options.port) as s: __enter__ calls open(); when open()
\* raises, the with body and __exit__ are not run
MainEnter ==
  /\ mode = "main"
  /\ pc = "start"
  /\ \/ /\ StationOpen
        /\ BeginCmd("I")
     \/ /\ pc' = "exited"
        /\ UNCHANGED << station, call >>
  /\ UNCHANGED << mode, max_tries, cycle >>
  /\ UNCHANGED hist

\* the with body: unit id, firmware serial, firmware version, then the loop
\* get_current / parse_current / sleep(5); an IndexError of parse_current
\* leaves the with statement through __exit__
MainReturned ==
  /\ mode = "main"
  /\ pc = "returned"
  /\ IF cmd = "I" THEN BeginCmd("S") /\ UNCHANGED station
     ELSE IF cmd = "S" THEN BeginCmd("V") /\ UNCHANGED station
     ELSE IF cmd = "V" THEN BeginCmd("r") /\ UNCHANGED station
     ELSE IF parse_current(outcome.value).error = "none"
     THEN /\ pc' = "main_sleep"
          /\ UNCHANGED << station, call >>
     ELSE /\ StationClose
          /\ pc' = "exited"
          /\ UNCHANGED call
  /\ UNCHANGED << mode, max_tries, cycle >>
  /\ UNCHANGED hist

\* time.sleep(5), then the next get_current()
MainSleep ==
  /\ mode = "main"
  /\ pc = "main_sleep"
  /\ BeginCmd("r")
  /\ UNCHANGED << mode, max_tries, station, cycle >>
  /\ UNCHANGED hist

\* an error of a get_* call, or an interrupt of the loop, leaves the with
\* statement: __exit__ calls close()
MainExit ==
  /\ mode = "main"
  /\ pc \in {"raised", "main_sleep"}
  /\ StationClose
  /\ pc' = "exited"
  /\ UNCHANGED << mode, max_tries, call, cycle >>
  /\ UNCHANGED hist

\* ------------------------------------------------- any caller of a station
ApiOpen ==
  /\ mode = "api"
  /\ pc = "idle"
  /\ Len(handles) < MaxHandles
  /\ StationOpen
  /\ UNCHANGED << mode, max_tries, pc, call, cycle >>
  /\ UNCHANGED hist

ApiClose ==
  /\ mode = "api"
  /\ pc = "idle"
  /\ StationClose
  /\ UNCHANGED << mode, max_tries, pc, call, cycle >>
  /\ UNCHANGED hist

\* get_current, get_firmware_version, get_firmware_serial, get_unit_id
ApiCommand ==
  /\ mode = "api"
  /\ pc = "idle"
  /\ \E c \in Commands : BeginCmd(c)
  /\ UNCHANGED << mode, max_tries, station, cycle >>
  /\ UNCHANGED hist

\* the call is over, by return or by error; the caller goes on
ApiDone ==
  /\ mode = "api"
  /\ pc \in {"returned", "raised"}
  /\ pc' = "idle"
  /\ UNCHANGED << mode, max_tries, station, call, cycle >>
  /\ UNCHANGED hist

\* ---------------------------------------------------------- specification
\* TWIStation.__init__: serial_port = None; the driver takes max_tries from
\* its configuration, __main__ takes the default
Init ==
  /\ mode \in {"driver", "main", "api"}
  /\ max_tries \in (IF mode = "main" THEN {DefaultMaxTries} ELSE 1..MaxTries)
  /\ serial_port = NoHandle
  /\ handles = << >>
  /\ pc = (IF mode = "api" THEN "idle" ELSE "start")
  /\ cmd = "I"
  /\ ntries = 0
  /\ trace = << >>
  /\ outcome = Pending
  /\ gen = "unstarted"
  /\ parsed = "none"
  /\ cycleExec = 0
  /\ cycleParse = 0
  /\ toks = << >>
  /\ data = NoData
  /\ last_rain = Absent
  /\ packet = NoPacket
  /\ sent = << >>
  /\ idle = << >>

Next ==
  \/ Attempt
  \/ Exhausted
  \/ DriverInit
  \/ CtorReturned
  \/ CtorRaised
  \/ GenStart
  \/ LoopReturned
  \/ LoopRaised
  \/ GenNext
  \/ PollSleep
  \/ closePort
  \/ MainEnter
  \/ MainReturned
  \/ MainSleep
  \/ MainExit
  \/ ApiOpen
  \/ ApiClose
  \/ ApiCommand
  \/ ApiDone

Spec == Init /\ [][Next]_vars

TypeOK ==
  /\ mode \in {"driver", "main", "api"}
  /\ max_tries \in 1..(MaxTries + DefaultMaxTries)
  /\ serial_port \in 0..Len(handles)
  /\ ntries \in 0..max_tries
  /\ outcome.kind \in {"pending", "return", "AttributeError", "SerialException",
                       "RetriesExceeded"}
  /\ gen \in {"unstarted", "running", "suspended", "dead"}
  /\ parsed \in {"none", "ok", "IndexError"}

\* ------------------------------------------- parse_current on its own
\* bounds of the lines handed to parse_current
MaxDigits == 3       \* longest run of digits in front of a unit suffix

\* the digits such a run is made of
ExploredDigits == {"0", "4", "9"}

\* the tokens of the sample reply, and one token more
BaseToks ==
  << <<"5",":","1","5">>,
     <<"0","7","/","2","4","/","9","0">>,
     <<"S","S","E">>,
     <<"0","4","M","P","H">>,
     <<"0","5","2","F">>,
     <<"0","6","9","F">>,
     <<"0","7","8","F">>,
     <<"0","9","9","%">>,
     <<"3","0",".","0","4","R">>,
     <<"0","0",".","1","9","\"","D">>,
     <<"0","1",".","3","8","\"","M">>,
     <<"1","1",".","7","8","\"","T">> >>

ExtraTok == <<"X">>

\* runs of 1..MaxDigits digits
DigitRuns == UNION { [1..k -> ExploredDigits] : k \in 1..MaxDigits }

MPH == <<"M","P","H">>
DegF == <<"F">>
Pct == <<"%">>

WindToks == { ds \o MPH : ds \in DigitRuns } \cup { <<"-","-","M","P","H">>, <<"M","P","H">> }
TempToks == { ds \o DegF : ds \in DigitRuns } \cup { <<"-","-","-","F">>, <<"F">> }
HumToks == { ds \o Pct : ds \in DigitRuns } \cup { <<"-","-","-","%">> }
PressureToks ==
  { <<"3","0",".","0","4","R">>, <<"2","9",".","3","1","F">>, <<"1","0","1","3","R">>, <<"R">>, <<"-","-",".","-","-","R">>, <<".","R">> }
RainToks ==
  { <<"0","0",".","1","9","\"","D">>,
    <<"1","7",".","1","5","\"","T">>,
    <<"0","0",".","0","0","\"","R">>,
    <<"5","\"","M">>,
    <<"\"","D">>,
    <<"-","-",".","-","-","\"","T">> }

\* the 16 compass points, clockwise from north
CompassOrder ==
  << <<"N">>,
     <<"N","N","E">>,
     <<"N","E">>,
     <<"E","N","E">>,
     <<"E">>,
     <<"E","S","E">>,
     <<"S","E">>,
     <<"S","S","E">>,
     <<"S">>,
     <<"S","S","W">>,
     <<"S","W">>,
     <<"W","S","W">>,
     <<"W">>,
     <<"W","N","W">>,
     <<"N","W">>,
     <<"N","N","W">> >>

CompassToks ==
  { CompassOrder[i] : i \in 1..16 }
    \cup { <<"s","s","e">>, <<"n">>, <<"N","w">>, <<"X">>, <<"N","N","N","E">>, <<"S","N">> }

\* the variants of the token at position i (1-based)
Variants(i) ==
  CASE i = 3 -> CompassToks
    [] i = 4 -> WindToks
    [] i \in {5, 6, 7} -> TempToks
    [] i = 8 -> HumToks
    [] i = 9 -> PressureToks
    [] i \in {10, 11, 12} -> RainToks

\* token lists: the sample cut short or made longer, and the sample with one
\* token replaced
TokenLists ==
  { SubSeq(BaseToks \o << ExtraTok >>, 1, k) : k \in 0..13 }
    \cup UNION { { [BaseToks EXCEPT ![i] = v] : v \in Variants(i) } : i \in 3..12 }

\* what separates two tokens of a line
Separators == { << " " >>, << " ", " " >>, << "\t" >> }

RECURSIVE Join(_, _)
Join(ts, sep) ==
  IF ts = << >> THEN << >>
  ELSE IF Len(ts) = 1 THEN ts[1]
  ELSE ts[1] \o sep \o Join(Tail(ts), sep)

\* a caller hands a line to the static method parse_current
ParseCall ==
  /\ ~ data.called
  /\ \E ts \in TokenLists, sep \in Separators :
       LET line == Join(ts, sep) IN
       /\ toks' = ts
       /\ data' = [called |-> TRUE, s |-> line, r |-> parse_current(line)]
  /\ UNCHANGED << mode, max_tries, station, pc, call, cycle >>
  /\ UNCHANGED << last_rain, packet, sent, idle >>

ParseInit == Init /\ mode = "api" /\ max_tries = 1

ParseNext == ParseCall

ParseSpec == ParseInit /\ [][ParseNext]_vars

\* ------------------------------------------------------------ properties
OpenHandles == { h \in 1..Len(handles) : handles[h].open }

\* get_data_with_retry ended after every attempt of its budget had failed
\* with an error its except clause catches
AllFailed == pc = "raised" /\ ntries >= max_tries

\* C1 (as claimed): when every attempt fails with a retryable error,
\* get_data_with_retry ends by raising RetriesExceeded, and the last thing
\* it did before was to log that failure at error level.
C1_RetriesExceeded ==
  AllFailed =>
    /\ outcome.kind = "RetriesExceeded"
    /\ trace # << >>
    /\ Last(trace).ev = "logerr"

\* C2 (as claimed): when every attempt fails, get_data_with_retry sleeps
\* exactly max_tries - 1 times.
C2_SleepsBetweenAttempts ==
  AllFailed => Count(trace, "sleep") = max_tries - 1

\* C2 (amended): when every attempt fails, get_data_with_retry sleeps
\* retry_wait exactly max_tries times, once after every failed attempt, the
\* final one included: the last thing it does before it fails is to sleep.
C2_SleepsAfterEveryAttempt ==
  AllFailed =>
    /\ Count(trace, "sleep") = max_tries
    /\ \A i \in 1..Len(trace) : trace[i].ev = "sleep" => trace[i].k = RetryWait
    /\ Last(trace).ev = "sleep"

C2_Witness == AllFailed /\ max_tries >= 2 /\ Count(trace, "sleep") >= 2

\* C3: when every attempt fails, get_data was called, and so the command
\* byte written, exactly max_tries times; at no point of a call has it been
\* written more than max_tries times.
C3_ExactlyMaxTriesCalls ==
  /\ Count(trace, "write") <= max_tries
  /\ \A i \in 1..Len(trace) : trace[i].ev = "write" => trace[i].cmd = cmd
  /\ AllFailed => Count(trace, "write") = max_tries

C3_Witness == AllFailed /\ max_tries >= 2 /\ Count(trace, "write") >= 2

\* C4: when attempt k succeeds after k-1 failed attempts, the call returns
\* after exactly k writes and k-1 sleeps, and the successful read is the
\* last thing it did.
C4_ReturnsAtFirstSuccess ==
  pc = "returned" =>
    LET k == ntries + 1 IN
    /\ k <= max_tries
    /\ outcome.kind = "return"
    /\ Count(trace, "write") = k
    /\ Count(trace, "readline") <= k
    /\ Count(trace, "sleep") = k - 1
    /\ Count(trace, "loginf") = k - 1
    /\ Last(trace).ev = "readline"

C4_Witness ==
  pc = "returned" /\ ntries >= 2 /\ outcome.value # << >>

\* a call returned what a timed-out read gave it
TimedOutReturn == outcome.kind = "return" /\ outcome.raw = EmptyBuf

\* C5 (as claimed): a read that timed out with no data is never handed
\* back as the result of a successful call.
C5_TimeoutIsAnError == ~ TimedOutReturn

\* C5 (amended): a read that times out with no data is no error: get_data
\* returns the empty line, get_data_with_retry returns it from that attempt
\* without retrying or sleeping after it, and genLoopPackets skips
\* parse_current for that poll cycle and goes to its poll sleep.
C5_TimeoutIsAnEmptyLine ==
  TimedOutReturn =>
    /\ outcome.value = << >>
    /\ Last(trace).ev = "readline"
    /\ Count(trace, "sleep") = ntries
    /\ (mode = "driver" /\ cmd = "r") =>
         /\ pc \in {"returned", "poll_sleep"}
         /\ gen = "running"
         /\ parsed = "none"
         /\ cycleParse = 0

C5_Witness ==
  mode = "driver" /\ pc = "poll_sleep" /\ TimedOutReturn /\ ntries >= 1

\* the session is over: no driver object came out of loader(), the host has
\* called closePort, or the with statement of __main__ has been left
SessionEnded == pc \in {"ctor_failed", "closed", "exited"}

\* C6 (as claimed): when a session ends, no serial handle it opened is
\* still open.
C6_ReleasedOnEveryExit == SessionEnded => OpenHandles = {}

\* C7 (as claimed): at most one serial handle acquired by the station is
\* open at any time.
C7_AtMostOneOpenHandle == Cardinality(OpenHandles) <= 1

\* a step that is a call of TWIStation.close()
CloseCall == ApiClose \/ closePort \/ MainExit

\* C8: close() is idempotent.  No handle is ever closed twice; a close() on
\* a station that holds no handle changes nothing; after any close() the
\* station holds no handle and the handle it held has been closed once.
C8_CloseIdempotent ==
  /\ [](\A h \in 1..Len(handles) :
          /\ handles[h].closes <= 1
          /\ handles[h].open <=> handles[h].closes = 0)
  /\ [][CloseCall =>
          /\ serial_port' = NoHandle
          /\ serial_port = NoHandle => handles' = handles
          /\ serial_port # NoHandle =>
               /\ ~ handles'[serial_port].open
               /\ handles'[serial_port].closes = 1
               /\ \A h \in 1..Len(handles) :
                    h # serial_port => handles'[h] = handles[h]]_vars

C8_Witness ==
  /\ mode = "api"
  /\ serial_port = NoHandle
  /\ Len(handles) >= 2
  /\ \A h \in 1..Len(handles) : handles[h].closes = 1

\* a poll cycle failed and the error has left get_current / parse_current
FailedCycle ==
  /\ mode = "driver"
  /\ cmd = "r"
  /\ gen # "unstarted"
  /\ \/ parsed = "IndexError"
     \/ outcome.kind \notin {"pending", "return"} /\ pc # "raised"

\* C9 (as claimed): a failed poll cycle does not end the polling loop.
C9_FailureSkipsCycle == FailedCycle => gen # "dead"

\* C9 (amended): a failure in one poll cycle (the retry loop of 'r' running
\* out of attempts, or a response line of fewer than 12 tokens) is not
\* scoped to that cycle: the error leaves genLoopPackets, which ends, and no
\* later poll cycle is run.
C9_FailureEndsLoop ==
  /\ [](FailedCycle => gen = "dead")
  /\ [][gen = "dead" => (gen' = "dead" /\ UNCHANGED << call, cycleExec >>)]_vars

C9_Witness ==
  /\ FailedCycle
  /\ gen = "dead"
  /\ AllFailed \/ parsed = "IndexError"

\* the current poll cycle has run its get_current and what follows it, up to
\* the poll sleep, the yield or the end of the generator
CycleOver == mode = "driver" /\ pc \in {"poll_sleep", "yielded", "gen_dead"}

\* C10 (as claimed): every poll cycle performs one get_current and one
\* parse_current.
C10_OneExecOneParse == CycleOver => (cycleExec = 1 /\ cycleParse = 1)

\* C10 (amended): every poll cycle performs exactly one get_current, and
\* exactly one parse_current of the line it returned when that line is not
\* empty; when the line is empty or get_current failed, parse_current is
\* not called in that cycle.
C10_OneExecAtMostOneParse ==
  CycleOver =>
    /\ cycleExec = 1
    /\ cycleParse =
         (IF outcome.kind = "return" /\ outcome.value # << >> THEN 1 ELSE 0)
    /\ (cycleParse = 1) <=> (parsed # "none")

C10_Witness == CycleOver /\ pc = "yielded" /\ cycleParse = 1 /\ ntries >= 1

\* the numeric field of a reading that comes from token i
FieldAt(r, i) ==
  CASE i = 4 -> r.wind_speed
    [] i = 5 -> r.temperature_aux
    [] i = 6 -> r.temperature_in
    [] i = 7 -> r.temperature_out
    [] i = 8 -> r.humidity
    [] i = 9 -> r.pressure
    [] i = 10 -> r.rain_day
    [] i = 11 -> r.rain_month
    [] i = 12 -> r.rain_total

\* the fields of the sample reply, as the comment in parse_current and the
\* spec give them
SampleField(i) ==
  CASE i = 4 -> Float(4, 0)
    [] i = 5 -> Float(52, 0)
    [] i = 6 -> Float(69, 0)
    [] i = 7 -> Float(78, 0)
    [] i = 8 -> Float(99, 0)
    [] i = 9 -> Float(3004, 2)
    [] i = 10 -> Float(19, 2)
    [] i = 11 -> Float(138, 2)
    [] i = 12 -> Float(1178, 2)

NoDigit(t) == \A j \in 1..Len(t) : t[j] \notin Digits

\* C11: parse_current fails exactly when its line has fewer than 12 tokens,
\* and then returns nothing; on a line of 12 tokens or more it returns a
\* reading in which time and date are tokens 0 and 1, a numeric field whose
\* token holds no digit is absent, and every field whose token is that of
\* the sample has the sample's value, whatever the other tokens are.
C11_FailsOnlyWhenShort ==
  data.called =>
    /\ (data.r.error = "IndexError") <=> (Len(toks) < 12)
    /\ Len(toks) < 12 => data.r = ParseError
    /\ Len(toks) >= 12 =>
         /\ data.r.error = "none"
         /\ data.r.time = toks[1]
         /\ data.r.date = toks[2]
         /\ \A i \in 4..12 :
              /\ NoDigit(toks[i]) => ~ FieldAt(data.r, i).ok
              /\ toks[i] = BaseToks[i] => FieldAt(data.r, i) = SampleField(i)

C11_Witness ==
  /\ data.called
  /\ Len(toks) = 12
  /\ ~ data.r.pressure.ok
  /\ data.r.wind_speed.ok
  /\ data.r.rain_total.ok

\* the unit suffix the spec's table gives for token i, and the width of the
\* number in front of it in the station's layout
Suffix(i) == CASE i = 4 -> MPH [] i \in {5, 6, 7} -> DegF [] i = 8 -> Pct
Width(i) == IF i = 4 THEN 2 ELSE 3

\* what stands in front of the suffix suf of a token
Front(t, suf) == SubSeq(t, 1, Len(t) - Len(suf))

\* t is one or more digits followed by suf
IsRun(t, suf) ==
  /\ Len(t) > Len(suf)
  /\ SubSeq(t, Len(t) - Len(suf) + 1, Len(t)) = suf
  /\ AllDigits(Front(t, suf))

\* C12 (as claimed): whatever the number of digits in front of the suffix,
\* the field is the number those digits write.
C12_SuffixStripped ==
  (data.called /\ Len(toks) >= 12) =>
    \A i \in 4..8 :
      IsRun(toks[i], Suffix(i)) =>
        FieldAt(data.r, i) = Float(DigitsVal(Front(toks[i], Suffix(i))), 0)

\* C12 (amended): parse_current does not strip the suffix, it takes the
\* first 2 characters of token 3 and the first 3 characters of tokens 4..7.
\* For a token made of digits followed by its suffix the field is the
\* number written by the digits when there are exactly 2 (token 3) or 3
\* (tokens 4..7) of them, the number written by the first 2 or 3 digits
\* when there are more, and absent when there are fewer.
C12_FixedWidthPrefix ==
  (data.called /\ Len(toks) >= 12) =>
    \A i \in 4..8 :
      IsRun(toks[i], Suffix(i)) =>
        LET ds == Front(toks[i], Suffix(i)) IN
        FieldAt(data.r, i) =
          (IF Len(ds) < Width(i) THEN Absent
           ELSE Float(DigitsVal(SubSeq(ds, 1, Width(i))), 0))

C12_Witness ==
  /\ data.called
  /\ Len(toks) = 12
  /\ IsRun(toks[4], MPH)
  /\ Len(Front(toks[4], MPH)) = 3
  /\ data.r.wind_speed # Float(DigitsVal(Front(toks[4], MPH)), 0)

\* a number: digits and at most one ".", at least one digit
IsNumeral(t) ==
  /\ \A j \in 1..Len(t) : t[j] \in Digits \cup {"."}
  /\ \E j \in 1..Len(t) : t[j] \in Digits
  /\ \A j, k \in 1..Len(t) : (t[j] = "." /\ t[k] = ".") => j = k

IsUnit(t) == \A j \in 1..Len(t) : t[j] \notin Digits \cup {"."}

\* t is a number followed by n unit characters
IsNumberWithUnit(t, n) ==
  /\ Len(t) > n
  /\ IsNumeral(SubSeq(t, 1, Len(t) - n))
  /\ IsUnit(SubSeq(t, Len(t) - n + 1, Len(t)))

\* the number written in a token: its digits, and as many decimals as there
\* are digits behind its "."
NumberIn(t) ==
  LET IsDigit(c) == c \in Digits
      ds == SelectSeq(t, IsDigit)
      decimals == IF \E j \in 1..Len(t) : t[j] = "."
                  THEN Len(SelectSeq(SubSeq(t, DotAt(t), Len(t)), IsDigit))
                  ELSE 0
  IN Float(DigitsVal(ds), decimals)

\* the station's fixed layout
InLayout(ts) ==
  /\ Len(ts) = 12
  /\ \A i \in 4..8 : IsRun(ts[i], Suffix(i)) /\ Len(Front(ts[i], Suffix(i))) = Width(i)
  /\ IsNumberWithUnit(ts[9], 1)
  /\ \A i \in 10..12 : IsNumberWithUnit(ts[i], 2)

\* C13: on a line in the station's fixed layout, time and date are tokens 0
\* and 1 verbatim and every numeric field is the number written in its
\* token; the sample line gives the values of the spec's example.
C13_FixedLayoutParsed ==
  (data.called /\ InLayout(toks)) =>
    /\ data.r.error = "none"
    /\ data.r.time = toks[1]
    /\ data.r.date = toks[2]
    /\ \A i \in 4..12 : FieldAt(data.r, i) = NumberIn(toks[i])
    /\ toks = BaseToks =>
         /\ \A i \in 4..12 : FieldAt(data.r, i) = SampleField(i)
         /\ data.r.time = <<"5",":","1","5">>
         /\ data.r.date = <<"0","7","/","2","4","/","9","0">>

C13_Witness ==
  /\ data.called
  /\ InLayout(toks)
  /\ toks[12] # BaseToks[12]
  /\ data.r.rain_total = Float(1715, 2)

\* C14: a token 2 that is one of the 16 compass points gives the bearing of
\* that point, 22.5 degrees times its place clockwise from N; any other token
\* gives no wind direction, and no error.
C14_CompassBearing ==
  (data.called /\ Len(toks) >= 12) =>
    /\ data.r.error = "none"
    /\ \A i \in 1..16 :
         toks[3] = CompassOrder[i] => data.r.wind_dir = Float(225 * (i - 1), 1)
    /\ (\A i \in 1..16 : toks[3] # CompassOrder[i]) => data.r.wind_dir = Absent

C14_Witness ==
  /\ data.called
  /\ Len(toks) = 12
  /\ toks[3] = <<"N","N","W">>
  /\ data.r.wind_dir = Float(3375, 1)

\* the get_data calls of the current get_data_with_retry call: one per
\* failed attempt, and the one that returned
GetDataCalls == ntries + (IF pc = "returned" THEN 1 ELSE 0)

\* a call of get_data_with_retry on a station that holds a handle is under
\* way or over
CallOnPort == pc \in {"cmd", "returned", "raised"} /\ serial_port # NoHandle

\* C15: get_data does not retry and exchanges do not overlap.  Each get_data
\* call writes the command byte once and reads at most once; every write
\* is followed at once by its own readline or by the failure of the
\* attempt, and every readline follows its own write.
C15_OneWriteOneRead ==
  CallOnPort =>
    /\ Count(trace, "write") = GetDataCalls
    /\ Count(trace, "readline") <= Count(trace, "write")
    /\ \A i \in 1..Len(trace) :
         /\ trace[i].ev = "write" =>
              /\ i < Len(trace)
              /\ trace[i + 1].ev \in {"readline", "loginf"}
         /\ trace[i].ev = "readline" =>
              /\ i > 1
              /\ trace[i - 1].ev = "write"

C15_Witness ==
  /\ CallOnPort
  /\ pc = "returned"
  /\ Count(trace, "write") = 3
  /\ Count(trace, "readline") = 2

\* C16: the k-th failed attempt is logged at info level with k and
\* max_tries, right after the attempt and right before the sleep that
\* follows it; a call that returns has logged nothing after its last read.
C16_FailureLoggedBeforeSleep ==
  /\ Count(trace, "loginf") = ntries
  /\ \A i \in 1..Len(trace) :
       /\ trace[i].ev = "loginf" =>
            /\ trace[i].k = Count(SubSeq(trace, 1, i), "loginf")
            /\ trace[i].n = max_tries
            /\ i > 1 /\ trace[i - 1].ev \in {"write", "readline"}
            /\ i < Len(trace) /\ trace[i + 1].ev = "sleep"
       /\ trace[i].ev = "sleep" => (i > 1 /\ trace[i - 1].ev = "loginf")
  /\ pc = "returned" => Last(trace).ev = "readline"

C16_Witness ==
  /\ pc = "cmd"
  /\ ntries = 2
  /\ Count(trace, "loginf") = 2
  /\ Last(trace).ev = "sleep"

\* C17: an error that is no serial or IO error is not retried.  A command
\* on a station that holds no handle ends with AttributeError from its
\* first attempt: nothing written, nothing logged, no sleep; it never
\* returns a line.
C17_OnlyTransportErrorsRetried ==
  /\ (pc \in {"cmd", "raised"} /\ serial_port = NoHandle) =>
       /\ ntries = 0
       /\ trace = << >>
       /\ pc = "raised" => outcome.kind = "AttributeError"
  /\ pc = "returned" => serial_port # NoHandle
  /\ (pc = "raised" /\ ~ AllFailed) => serial_port = NoHandle

C17_Witness ==
  /\ mode = "api"
  /\ pc = "raised"
  /\ serial_port = NoHandle
  /\ handles # << >>
  /\ outcome.kind = "AttributeError"

IsPrefix(a, b) == Len(a) <= Len(b) /\ a = SubSeq(b, 1, Len(a))

\* TWIDriver.__init__ has not returned
Constructing ==
  \/ pc \in {"start", "ctor_failed"}
  \/ pc \in {"cmd", "returned", "raised"} /\ cmd \in {"I", "V", "S"}

\* C18: in a driver session nothing is written before open() has acquired
\* the port; the bytes written are I, then V, then S during construction,
\* each repeated only in a row, and after construction only r.
C18_CommandOrder ==
  mode = "driver" =>
    /\ sent # << >> => handles # << >>
    /\ \A i \in 1..Len(sent) : sent[i] \in Commands
    /\ IsPrefix(sent, << "I", "V", "S", "r" >>)
    /\ Constructing => IsPrefix(sent, << "I", "V", "S" >>)
    /\ ~ Constructing => IsPrefix(<< "I", "V", "S" >>, sent)
    /\ \A i \in 1..Len(trace) : trace[i].ev = "write" => Last(sent) = trace[i].cmd

C18_Witness ==
  /\ mode = "driver"
  /\ pc = "cmd"
  /\ ntries >= 1
  /\ sent = << "I", "V", "S", "r" >>

\* a step in which genLoopPackets calls get_current()
CallsGetCurrent == mode = "driver" /\ pc # "cmd" /\ pc' = "cmd" /\ cmd' = "r"

\* C19: a poll cycle yields a packet if and only if get_current returned a
\* line that is not empty and that parse_current accepted; between two
\* get_current calls in a row genLoopPackets sleeps poll_interval exactly
\* once, and does nothing else, whether or not a packet was yielded.
C19_PacketIffParsedOneSleep ==
  /\ [](CycleOver =>
          /\ packet.built <=>
               /\ outcome.kind = "return"
               /\ outcome.value # << >>
               /\ Len(split(outcome.value)) >= 12
          /\ pc = "yielded" => packet.built
          /\ pc = "gen_dead" => ~ packet.built)
  /\ [][CallsGetCurrent =>
          IF gen = "unstarted" THEN idle' = << >>
          ELSE /\ Len(idle') = 1
               /\ idle'[1].ev = "sleep"
               /\ idle'[1].k = PollInterval]_vars

C19_Witness ==
  /\ mode = "driver"
  /\ pc = "yielded"
  /\ packet.built
  /\ idle # << >>
  /\ ~ packet.rain.ok

\* C20: the step that builds a packet sets last_rain to the rain_total of
\* the reading it was built from (absent when that is absent) and computes
\* the packet's rain from the last_rain of before; no other step changes
\* last_rain.
C20_LastRainFollowsPackets ==
  [][IF pc # "yielded" /\ pc' = "yielded"
     THEN /\ data'.s = outcome.value
          /\ last_rain' = data'.r.rain_total
          /\ packet'.built
          /\ packet'.rain = calculate_rain(data'.r.rain_total, last_rain)
     ELSE last_rain' = last_rain]_vars

C20_Witness ==
  /\ mode = "driver"
  /\ pc = "yielded"
  /\ packet.rain = Float(537, 2)
  /\ last_rain = Float(1715, 2)

=============================================================================
